---------------------------- MODULE Spec2Model ----------------------------
(***************************************************************************)
(* The frame loop of src/main.cpp: gravity between the particles, elastic  *)
(* collision response with overlap correction, explicit Euler position     *)
(* integration, and the upload of (position, mass) to the vertex buffer.   *)
(*                                                                         *)
(* Numbers.  A float is a binary floating-point number m * 2^e with a      *)
(* significand m of Precision bits (2^(Precision-1) <= |m| < 2^Precision,  *)
(* or m = 0 and e = 0) and an unbounded exponent.  Every arithmetic        *)
(* operation of the source is one operator that rounds the exact result    *)
(* to the nearest float, ties to even, as IEEE 754 does; only the width    *)
(* of the significand is smaller than the 24 bits of the C++ float, so     *)
(* that every intermediate integer fits the model checker's arithmetic.    *)
(* NaN stands for every non-finite float; it is produced by a division by  *)
(* zero or the square root of a negative number, it is absorbing, and      *)
(* every comparison with it is false.                                      *)
(***************************************************************************)
EXTENDS Integers, Sequences, FiniteSets, TLC

VARIABLES particles, acc, dt, pc, frame, gpu, drawn, initial, pre, trail

vars == <<particles, acc, dt, pc, frame, gpu, drawn, initial, pre, trail>>

-----------------------------------------------------------------------------
(* Bounds of the model *)

MaxFrames == 3

-----------------------------------------------------------------------------
(* float *)

Precision == 14

Float(m, e) == [m |-> m, e |-> e]

FZero == Float(0, 0)

NaN == Float(0, 1)

Abs(a) == IF a < 0 THEN -a ELSE a

Sgn(a) == IF a < 0 THEN -1 ELSE IF a > 0 THEN 1 ELSE 0

\* the number of bits of n >= 0
RECURSIVE BitLen(_)
BitLen(n) == IF n = 0 THEN 0 ELSE 1 + BitLen(n \div 2)

\* the float nearest to m * 2^e, ties to even
Round(m, e) ==
    LET a    == Abs(m)
        k    == BitLen(a) - Precision
        q    == a \div 2 ^ k
        r    == a % 2 ^ k
        half == 2 ^ (k - 1)
        up   == r > half \/ (r = half /\ q % 2 = 1)
        q2   == IF up THEN q + 1 ELSE q
    IN  IF m = 0 THEN FZero
        ELSE IF k <= 0 THEN Float(m * 2 ^ (-k), e + k)
        ELSE IF q2 = 2 ^ Precision
        THEN Float(Sgn(m) * 2 ^ (Precision - 1), e + k + 1)
        ELSE Float(Sgn(m) * q2, e + k)

\* an int converted to float
FromInt(n) == Round(n, 0)

FNeg(a) == IF a = NaN THEN NaN ELSE Float(-a.m, a.e)

FAbs(a) == IF a = NaN THEN NaN ELSE Float(Abs(a.m), a.e)

\* an operand below a quarter of the other's last place does not change it
FAdd(a, b) ==
    IF a = NaN \/ b = NaN THEN NaN
    ELSE IF a.m = 0 THEN b
    ELSE IF b.m = 0 THEN a
    ELSE IF a.e - b.e > Precision + 2 THEN a
    ELSE IF b.e - a.e > Precision + 2 THEN b
    ELSE LET e == IF a.e < b.e THEN a.e ELSE b.e
         IN  Round(a.m * 2 ^ (a.e - e) + b.m * 2 ^ (b.e - e), e)

FSub(a, b) == FAdd(a, FNeg(b))

FMul(a, b) ==
    IF a = NaN \/ b = NaN THEN NaN ELSE Round(a.m * b.m, a.e + b.e)

\* the quotient carries two bits more than a significand and a sticky bit
\* for the remainder; a division by zero is not finite
FDiv(a, b) ==
    IF a = NaN \/ b = NaN \/ b.m = 0 THEN NaN
    ELSE LET n      == Abs(a.m) * 2 ^ (Precision + 1)
             q      == n \div Abs(b.m)
             sticky == IF n % Abs(b.m) = 0 THEN 0 ELSE 1
         IN  Round(Sgn(a.m) * Sgn(b.m) * (2 * q + sticky),
                   a.e - b.e - Precision - 2)

RECURSIVE SqrtFloor(_, _, _)
SqrtFloor(n, lo, hi) ==
    IF hi - lo <= 1
    THEN lo
    ELSE LET mid == (lo + hi) \div 2
         IN  IF mid * mid <= n THEN SqrtFloor(n, mid, hi)
                               ELSE SqrtFloor(n, lo, mid)

\* the significand is scaled to an even exponent and to twice the width,
\* and its integer square root rounded to nearest
FSqrt(a) ==
    IF a = NaN \/ a.m < 0 THEN NaN
    ELSE IF a.m = 0 THEN FZero
    ELSE LET k == IF (a.e - (Precision - 1)) % 2 = 0
                  THEN Precision - 1 ELSE Precision
             n == a.m * 2 ^ k
             r == SqrtFloor(n, 0, 2 ^ Precision + 1)
         IN  Round(IF n - r * r > r THEN r + 1 ELSE r, (a.e - k) \div 2)

FLt(a, b) == a # NaN /\ b # NaN /\ FSub(a, b).m < 0

FLe(a, b) == a # NaN /\ b # NaN /\ FSub(a, b).m <= 0

\* a decimal literal with three places: the float nearest to n / 1000
Milli(n) == FDiv(FromInt(n), FromInt(1000))

(* glm::vec2 *)

VAdd(a, b) == <<FAdd(a[1], b[1]), FAdd(a[2], b[2])>>

VSub(a, b) == <<FSub(a[1], b[1]), FSub(a[2], b[2])>>

VScale(a, s) == <<FMul(a[1], s), FMul(a[2], s)>>

VDiv(a, s) == <<FDiv(a[1], s), FDiv(a[2], s)>>

\* glm::dot
FDot(a, b) == FAdd(FMul(a[1], b[1]), FMul(a[2], b[2]))

Zero == <<FZero, FZero>>

-----------------------------------------------------------------------------
(* Program constants *)

PARTICLE_COUNT == 2

G == FromInt(1)

SOFTENING == Milli(10)

RADIUS_SCALE == Milli(20)

\* the guard dist < 0.0001f
MinDist == FDiv(FromInt(1), FromInt(10000))

Two == FromInt(2)

Idx == 1 .. PARTICLE_COUNT

getRadius(mass) == FMul(mass, RADIUS_SCALE)

-----------------------------------------------------------------------------
(* initParticles: positions in [-0.8, 0.8)^2, masses in [0.2, 2.0), the    *)
(* velocity zero.  The engine is implementation-defined, so the model      *)
(* draws every particle from a few points of that square and range, some   *)
(* of them mirrored about the origin and some closer than two radii.       *)

PosValues ==
    {<<Milli(x), Milli(y)>> :
        <<x, y>> \in {<<-100, 0>>, <<100, 0>>, <<-25, 0>>, <<25, 0>>,
                      <<-25, -20>>, <<25, 20>>, <<-100, 20>>, <<60, -20>>}}

MassValues == {Milli(700), Milli(1000), Milli(1500)}

Particle(p, v, m) == [pos |-> p, vel |-> v, mass |-> m]

initParticles ==
    {[i \in Idx |-> Particle(ps[i], Zero, ms[i])] :
        ps \in [Idx -> PosValues], ms \in [Idx -> MassValues]}

\* the frame deltas the clock reports: none, 16 ms, 30 ms
DtValues == {Milli(0), Milli(16), Milli(30)}

-----------------------------------------------------------------------------
(* Gravity pass *)

\* dir * (force / particles[i].mass)
AccScaleOther(force, mi, mj) == FDiv(force, mj)

AccScale(force, mi, mj) == FDiv(force, mi)

\* diff / |diff|, the unsoftened unit vector
DirectionUnsoftened(diff, dist) == VDiv(diff, FSqrt(FDot(diff, diff)))

Direction(diff, dist) == VDiv(diff, dist)

AccContribution(ps, i, j) ==
    LET diff   == VSub(ps[j].pos, ps[i].pos)
        distSq == FAdd(FDot(diff, diff), SOFTENING)
        dist   == FSqrt(distSq)
        force  == FDiv(FMul(FMul(G, ps[i].mass), ps[j].mass), distSq)
        dir    == Direction(diff, dist)
    IN  VScale(dir, AccScale(force, ps[i].mass, ps[j].mass))

RECURSIVE AccLoop(_, _, _, _)
AccLoop(ps, i, j, a) ==
    IF j > PARTICLE_COUNT
    THEN a
    ELSE IF i = j
         THEN AccLoop(ps, i, j + 1, a)
         ELSE AccLoop(ps, i, j + 1, VAdd(a, AccContribution(ps, i, j)))

Accelerations(ps) == [i \in Idx |-> AccLoop(ps, i, 1, Zero)]

ApplyAcceleration(ps, a, d) ==
    [i \in Idx |-> [ps[i] EXCEPT !.vel = VAdd(@, VScale(a[i], d))]]

-----------------------------------------------------------------------------
(* Collision detection and resolution *)

Overlapping(ps, i, j) ==
    LET diff == VSub(ps[j].pos, ps[i].pos)
        rSum == FAdd(getRadius(ps[i].mass), getRadius(ps[j].mass))
    IN  FLt(FDot(diff, diff), FMul(rSum, rSum))

NoGuard(dist) == FALSE

\* if (dist < 0.0001f) continue;
Degenerate(dist) == FLt(dist, MinDist)

V1NewHalf(v1, v2, m1, m2) ==
    FDiv(FAdd(FMul(v1, FSub(m1, m2)), FMul(m2, v2)), FAdd(m1, m2))

V1New(v1, v2, m1, m2) ==
    FDiv(FAdd(FMul(v1, FSub(m1, m2)), FMul(FMul(Two, m2), v2)), FAdd(m1, m2))

V2NewWrongMass(v1, v2, m1, m2) ==
    FDiv(FAdd(FMul(v2, FSub(m2, m1)), FMul(FMul(Two, m2), v1)), FAdd(m1, m2))

V2New(v1, v2, m1, m2) ==
    FDiv(FAdd(FMul(v2, FSub(m2, m1)), FMul(FMul(Two, m1), v1)), FAdd(m1, m2))

CorrectionQuarter(n, penetration) ==
    VScale(n, FDiv(penetration, FAdd(Two, Two)))

\* n * (penetration / 2.0f)
Correction(n, penetration) == VScale(n, FDiv(penetration, Two))

SeparateJForgotten(posJ, correction) == posJ

\* particles[j].pos += correction
SeparateJ(posJ, correction) == VAdd(posJ, correction)

\* the pair merged into particle i, as a resolver without the invariant
\* "no merging" would do
ResolvePairMerging(ps, i, j) ==
    IF Overlapping(ps, i, j)
    THEN [ps EXCEPT ![i].mass = FAdd(ps[i].mass, ps[j].mass)]
    ELSE ps

ResolvePair(ps, i, j) ==
    LET diff   == VSub(ps[j].pos, ps[i].pos)
        distSq == FDot(diff, diff)
        rSum   == FAdd(getRadius(ps[i].mass), getRadius(ps[j].mass))
        dist   == FSqrt(distSq)
        n      == VDiv(diff, dist)
        v1     == FDot(ps[i].vel, n)
        v2     == FDot(ps[j].vel, n)
        m1     == ps[i].mass
        m2     == ps[j].mass
        v1New  == V1New(v1, v2, m1, m2)
        v2New  == V2New(v1, v2, m1, m2)
        correction == Correction(n, FSub(rSum, dist))
    IN  IF ~Overlapping(ps, i, j)
        THEN ps
        ELSE IF Degenerate(dist)
        THEN ps
        ELSE [ps EXCEPT
                ![i] = [@ EXCEPT
                          !.vel = VAdd(@, VScale(n, FSub(v1New, v1))),
                          !.pos = VSub(@, correction)],
                ![j] = [@ EXCEPT
                          !.vel = VAdd(@, VScale(n, FSub(v2New, v2))),
                          !.pos = SeparateJ(@, correction)]]

RECURSIVE CollidePairs(_, _, _)
CollidePairs(ps, i, j) ==
    IF i > PARTICLE_COUNT
    THEN ps
    ELSE IF j > PARTICLE_COUNT
         THEN CollidePairs(ps, i + 1, i + 2)
         ELSE CollidePairs(ResolvePair(ps, i, j), i, j + 1)

CollisionPass(ps) == CollidePairs(ps, 1, 2)

-----------------------------------------------------------------------------
(* Position update and upload *)

UpdatePositions(ps, d) ==
    [i \in Idx |-> [ps[i] EXCEPT !.pos = VAdd(@, VScale(ps[i].vel, d))]]

GPUData(ps) == [i \in Idx |-> [pos |-> ps[i].pos, mass |-> ps[i].mass]]

-----------------------------------------------------------------------------
(* The frame loop.  pc is the statement the loop is at; trail lists the    *)
(* steps the current frame has run; pre is the particle list on entry to   *)
(* the latest collision pass; initial is the list initParticles built.     *)

FrameSteps == <<"gravity", "velocity", "collide", "integrate", "upload">>

UploadFirst(p) ==
    CASE p = "time"      -> "gravity"
      [] p = "gravity"   -> "velocity"
      [] p = "velocity"  -> "collide"
      [] p = "collide"   -> "upload"
      [] p = "upload"    -> "integrate"
      [] p = "integrate" -> "render"
      [] p = "render"    -> "time"

\* the statement after p in the loop body
NextPc(p) ==
    CASE p = "time"      -> "gravity"
      [] p = "gravity"   -> "velocity"
      [] p = "velocity"  -> "collide"
      [] p = "collide"   -> "integrate"
      [] p = "integrate" -> "upload"
      [] p = "upload"    -> "render"
      [] p = "render"    -> "time"

Init ==
    /\ particles \in initParticles
    /\ initial = particles
    /\ pre = particles
    /\ acc = [i \in Idx |-> Zero]
    /\ dt = FZero
    /\ pc = "time"
    /\ frame = 0
    /\ gpu = <<>>
    /\ drawn = <<>>
    /\ trail = <<>>

\* dt = currentTime - lastTime
ReadTime ==
    /\ pc = "time"
    /\ frame < MaxFrames
    /\ \E d \in DtValues : dt' = d
    /\ pc' = NextPc(pc)
    /\ trail' = <<>>
    /\ UNCHANGED <<particles, acc, frame, gpu, drawn, initial, pre>>

Gravity ==
    /\ pc = "gravity"
    /\ acc' = Accelerations(particles)
    /\ pc' = NextPc(pc)
    /\ trail' = Append(trail, "gravity")
    /\ UNCHANGED <<particles, dt, frame, gpu, drawn, initial, pre>>

Velocity ==
    /\ pc = "velocity"
    /\ particles' = ApplyAcceleration(particles, acc, dt)
    /\ pc' = NextPc(pc)
    /\ trail' = Append(trail, "velocity")
    /\ UNCHANGED <<acc, dt, frame, gpu, drawn, initial, pre>>

Collide ==
    /\ pc = "collide"
    /\ particles' = CollisionPass(particles)
    /\ pre' = particles
    /\ pc' = NextPc(pc)
    /\ trail' = Append(trail, "collide")
    /\ UNCHANGED <<acc, dt, frame, gpu, drawn, initial>>

Integrate ==
    /\ pc = "integrate"
    /\ particles' = UpdatePositions(particles, dt)
    /\ pc' = NextPc(pc)
    /\ trail' = Append(trail, "integrate")
    /\ UNCHANGED <<acc, dt, frame, gpu, drawn, initial, pre>>

Upload ==
    /\ pc = "upload"
    /\ gpu' = GPUData(particles)
    /\ pc' = NextPc(pc)
    /\ trail' = Append(trail, "upload")
    /\ UNCHANGED <<particles, acc, dt, frame, drawn, initial, pre>>

\* glDrawArrays reads the buffer; the loop condition is evaluated next
Render ==
    /\ pc = "render"
    /\ drawn' = gpu
    /\ frame' = frame + 1
    /\ pc' = NextPc(pc)
    /\ UNCHANGED <<particles, acc, dt, gpu, initial, pre, trail>>

\* glfwWindowShouldClose(window)
Close ==
    /\ pc = "time"
    /\ pc' = "closed"
    /\ UNCHANGED <<particles, acc, dt, frame, gpu, drawn, initial, pre, trail>>

Next ==
    \/ ReadTime
    \/ Gravity
    \/ Velocity
    \/ Collide
    \/ Integrate
    \/ Upload
    \/ Render
    \/ Close

Spec == Init /\ [][Next]_vars

-----------------------------------------------------------------------------
(* The collision pass in isolation: no gravity step runs, and the pass is  *)
(* applied once to a pair with arbitrary velocities.  Particle 2 sits at   *)
(* an offset from particle 1: none (coincident centres), along an axis,    *)
(* oblique, a few thousandths long, or beyond the sum of the radii.        *)

ContactOrigins == {<<Milli(0), Milli(0)>>, <<Milli(-300), Milli(120)>>}

ContactOffsets ==
    {<<Milli(x), Milli(y)>> :
        <<x, y>> \in {<<0, 0>>, <<25, 0>>, <<15, 20>>, <<-7, 24>>, <<0, -25>>,
                      <<-20, -15>>, <<2, 1>>, <<1, -3>>, <<24, 32>>,
                      <<100, 0>>}}

VelValues ==
    {<<Milli(x), Milli(y)>> :
        <<x, y>> \in {<<0, 0>>, <<3000, -2000>>, <<-4000, 1000>>,
                      <<500, 2500>>}}

InitIsolated ==
    /\ particles \in
         {[i \in Idx |->
             Particle(IF i = 1 THEN o ELSE VAdd(o, d), vs[i], ms[i])] :
             o \in ContactOrigins, d \in ContactOffsets,
             vs \in [Idx -> VelValues], ms \in [Idx -> MassValues]}
    /\ initial = particles
    /\ pre = particles
    /\ acc = [i \in Idx |-> Zero]
    /\ dt = FZero
    /\ pc = "collide"
    /\ frame = 0
    /\ gpu = <<>>
    /\ drawn = <<>>
    /\ trail = <<"gravity", "velocity">>

NextIsolated == Collide

SpecIsolated == InitIsolated /\ [][NextIsolated]_vars

-----------------------------------------------------------------------------
(* Measurements used by the properties, in the arithmetic of the program   *)

\* 2^k
Pow2(k) == Round(1, k)

\* |a - b| <= tol
Near(a, b, tol) == FLe(FAbs(FSub(a, b)), tol)

\* |v[1]| + |v[2]|
Size(v) == FAdd(FAbs(v[1]), FAbs(v[2]))

\* sum over particles i.. of mass * vel[c]
RECURSIVE MomentumFrom(_, _, _)
MomentumFrom(ps, c, i) ==
    IF i > PARTICLE_COUNT
    THEN FZero
    ELSE FAdd(FMul(ps[i].mass, ps[i].vel[c]), MomentumFrom(ps, c, i + 1))

TotalMomentum(ps) == <<MomentumFrom(ps, 1, 1), MomentumFrom(ps, 2, 1)>>

\* sum over particles i.. of mass * (|vel[1]| + |vel[2]|)
RECURSIVE MomentumSizeFrom(_, _)
MomentumSizeFrom(ps, i) ==
    IF i > PARTICLE_COUNT
    THEN FZero
    ELSE FAdd(FMul(ps[i].mass, Size(ps[i].vel)), MomentumSizeFrom(ps, i + 1))

MomentumSize(ps) == MomentumSizeFrom(ps, 1)

\* sum over particles i.. of mass * |vel|^2 (twice the kinetic energy)
RECURSIVE TwiceKEFrom(_, _)
TwiceKEFrom(ps, i) ==
    IF i > PARTICLE_COUNT
    THEN FZero
    ELSE FAdd(FMul(ps[i].mass, FDot(ps[i].vel, ps[i].vel)),
              TwiceKEFrom(ps, i + 1))

TotalTwiceKE(ps) == TwiceKEFrom(ps, 1)

Finite(p) ==
    /\ p.pos[1] # NaN /\ p.pos[2] # NaN
    /\ p.vel[1] # NaN /\ p.vel[2] # NaN
    /\ p.mass # NaN

AllFinite(ps) == \A i \in Idx : Finite(ps[i])

\* the collision pass has just run
AfterCollide ==
    pc = NextPc("collide") /\ trail # <<>> /\ trail[Len(trail)] = "collide"

Distance(ps, i, j) ==
    FSqrt(FDot(VSub(ps[j].pos, ps[i].pos), VSub(ps[j].pos, ps[i].pos)))

RadiusSum(ps, i, j) == FAdd(getRadius(ps[i].mass), getRadius(ps[j].mass))

\* the pass resolved the pair (1, 2): it overlapped and was not skipped
Resolved12 ==
    /\ AfterCollide
    /\ Overlapping(pre, 1, 2)
    /\ ~Degenerate(Distance(pre, 1, 2))

\* the contact normal the pass computes for the pair (i, j) of ps
ContactNormal(ps, i, j) == VDiv(VSub(ps[j].pos, ps[i].pos), Distance(ps, i, j))

\* the component of v across the normal n
Tangential(v, n) == FSub(FMul(v[2], n[1]), FMul(v[1], n[2]))

\* the component of v along the normal n
Normal(v, n) == FDot(v, n)

\* the relative tolerance of the properties: 2^5 units in the last place
Tolerance == Pow2(5 - Precision)

One == FromInt(1)

-----------------------------------------------------------------------------
(* C1.  Isolated collision, no gravity step: the collision pass conserves  *)
(* the total vector momentum m1*vel1 + m2*vel2 within tolerance: each      *)
(* component changes by at most Tolerance times the sum of the sizes       *)
(* m_i * (|vel_i.x| + |vel_i.y|) of the momenta before the pass.           *)

C1_MomentumConserved ==
    AfterCollide =>
        \A c \in 1 .. 2 :
            Near(TotalMomentum(particles)[c], TotalMomentum(pre)[c],
                 FMul(Tolerance, MomentumSize(pre)))

C1_Witness ==
    /\ Resolved12
    /\ pre[1].mass # pre[2].mass
    /\ particles[1].vel # pre[1].vel
    /\ particles[2].vel # pre[2].vel
    /\ TotalMomentum(pre)[1] # FZero
    /\ TotalMomentum(pre)[2] # FZero
    /\ ContactNormal(pre, 1, 2)[1] # FZero
    /\ ContactNormal(pre, 1, 2)[2] # FZero

-----------------------------------------------------------------------------
(* C2.  Isolated collision, no gravity step: the collision pass conserves  *)
(* the total kinetic energy within tolerance (Tolerance times the energy   *)
(* before the pass), and leaves the component of every velocity across     *)
(* the contact normal as it was, within Tolerance times the sizes of the   *)
(* two velocities.                                                         *)

C2_EnergyConserved ==
    /\ AfterCollide =>
           Near(TotalTwiceKE(particles), TotalTwiceKE(pre),
                FMul(Tolerance, TotalTwiceKE(pre)))
    /\ Resolved12 =>
           \A i \in Idx :
               Near(Tangential(particles[i].vel, ContactNormal(pre, 1, 2)),
                    Tangential(pre[i].vel, ContactNormal(pre, 1, 2)),
                    FMul(Tolerance, FAdd(Size(pre[1].vel), Size(pre[2].vel))))

C2_Witness ==
    /\ Resolved12
    /\ pre[1].mass # pre[2].mass
    /\ particles[1].vel # pre[1].vel
    /\ particles[2].vel # pre[2].vel
    /\ ContactNormal(pre, 1, 2)[1] # FZero
    /\ ContactNormal(pre, 1, 2)[2] # FZero
    /\ FLt(One, FAbs(Tangential(pre[1].vel, ContactNormal(pre, 1, 2))))
    /\ FLt(One, FAbs(Tangential(pre[2].vel, ContactNormal(pre, 1, 2))))

-----------------------------------------------------------------------------
(* C3 as stated.  After the collision pass every pair that overlapped on   *)
(* entry is at least rSum - epsilon apart, epsilon being Tolerance times   *)
(* rSum.                                                                   *)

Separated(ps, i, j) ==
    FLe(FMul(RadiusSum(ps, i, j), FSub(One, Tolerance)), Distance(ps, i, j))

C3_OverlapResolved ==
    (AfterCollide /\ Overlapping(pre, 1, 2)) => Separated(particles, 1, 2)

(* C3 as amended.  After the collision pass every pair that overlapped on  *)
(* entry and whose centres were at least 1e-4 apart (the pair the guard    *)
(* does not skip) is at least rSum - epsilon apart.                        *)

C3_OverlapResolvedUnlessSkipped == Resolved12 => Separated(particles, 1, 2)

C3_Witness ==
    /\ Resolved12
    /\ frame >= 1
    /\ pre[1].pos[1] # pre[2].pos[1]
    /\ pre[1].pos[2] # pre[2].pos[2]
    /\ particles[1].pos # pre[1].pos
    /\ particles[2].pos # pre[2].pos
    /\ ~Separated(pre, 1, 2)

-----------------------------------------------------------------------------
(* C4.  The steps of a frame run in the order gravity, velocity, collide,  *)
(* integrate, upload, each once; the position update adds vel * dt with    *)
(* the velocity the collision pass left; the buffer is written only by     *)
(* the upload, after the four physics steps, with the (position, mass)     *)
(* list of the finished frame; and what the renderer reads is that list.   *)

IsPrefix(s, t) == Len(s) <= Len(t) /\ s = SubSeq(t, 1, Len(s))

C4_FrameOrder ==
    /\ [](IsPrefix(trail, FrameSteps))
    /\ [][gpu' # gpu =>
            /\ trail = SubSeq(FrameSteps, 1, 4)
            /\ particles' = particles
            /\ gpu' = GPUData(particles)]_vars
    /\ [][(particles' # particles /\ trail' = SubSeq(FrameSteps, 1, 4)) =>
            \A i \in Idx :
                /\ particles'[i].vel = particles[i].vel
                /\ particles'[i].pos
                     = VAdd(particles[i].pos, VScale(particles[i].vel, dt))]_vars
    /\ [][drawn' # drawn =>
            /\ trail = FrameSteps
            /\ drawn' = GPUData(particles)]_vars

C4_Witness ==
    /\ frame >= 2
    /\ pc = "time"
    /\ drawn = GPUData(particles)
    /\ \A i \in Idx : particles[i].pos # initial[i].pos
    /\ particles # pre

-----------------------------------------------------------------------------
(* C5.  Two particles initialized at the same position: every position,    *)
(* velocity and acceleration stays finite, and the collision pass leaves   *)
(* the pair as it found it.                                                *)

Coincident(ps) == ps[1].pos = ps[2].pos

C5_CoincidentStaysFinite ==
    Coincident(initial) =>
        /\ AllFinite(particles)
        /\ \A i \in Idx : acc[i][1] # NaN /\ acc[i][2] # NaN
        /\ AfterCollide => particles = pre

C5_Witness ==
    /\ Coincident(initial)
    /\ initial[1].mass # initial[2].mass
    /\ frame = 1
    /\ dt.m > 0
    /\ AllFinite(particles)

-----------------------------------------------------------------------------
(* C6.  Two particles of equal mass that start at rest at mirrored         *)
(* positions stay mirror images: pos_1 = -pos_2 and vel_1 = -vel_2.        *)

Neg(v) == <<FNeg(v[1]), FNeg(v[2])>>

SymmetricStart(ps) ==
    /\ ps[1].mass = ps[2].mass
    /\ ps[1].pos = Neg(ps[2].pos)
    /\ ps[1].vel = Zero
    /\ ps[2].vel = Zero

C6_Mirror ==
    SymmetricStart(initial) =>
        /\ AllFinite(particles)
        /\ particles[1].pos = Neg(particles[2].pos)
        /\ particles[1].vel = Neg(particles[2].vel)

C6_Witness ==
    /\ SymmetricStart(initial)
    /\ frame >= 2
    /\ Resolved12
    /\ particles[1].vel # Zero
    /\ particles[1].pos # initial[1].pos
    /\ particles[1].pos[2] # FZero

-----------------------------------------------------------------------------
(* C7 as stated.  A at (-0.1, 0), B at (0.1, 0), both of mass 1, at rest;  *)
(* first frame, dt = 0.016: no collision, accelerations of magnitude 20    *)
(* toward each other along x, velocities +0.32 and -0.32, positions        *)
(* shifted by vel * dt.  "About" is taken as within 5 percent.             *)

ScenarioStart ==
    /\ initial[1] = Particle(<<Milli(-100), FZero>>, Zero, One)
    /\ initial[2] = Particle(<<Milli(100), FZero>>, Zero, One)

FirstFrame16 == ScenarioStart /\ frame = 0 /\ dt = Milli(16)

HasRun(step) == \E k \in 1 .. Len(trail) : trail[k] = step

C7_Scenario ==
    FirstFrame16 =>
        /\ HasRun("gravity") =>
              /\ Near(acc[1][1], Milli(20000), One) /\ acc[1][2] = FZero
              /\ Near(acc[2][1], Milli(-20000), One) /\ acc[2][2] = FZero
        /\ HasRun("velocity") =>
              /\ Near(particles[1].vel[1], Milli(320), Milli(16))
              /\ particles[1].vel[2] = FZero
              /\ Near(particles[2].vel[1], Milli(-320), Milli(16))
              /\ particles[2].vel[2] = FZero
        /\ AfterCollide => (~Overlapping(pre, 1, 2) /\ particles = pre)
        /\ HasRun("integrate") =>
              \A i \in Idx :
                  particles[i].pos
                    = VAdd(initial[i].pos, VScale(particles[i].vel, dt))

(* C7 as amended.  The same scenario: no collision; the direction is       *)
(* diff / sqrt(|diff|^2 + SOFTENING), of length 0.2 / sqrt(0.05), so the   *)
(* accelerations have magnitude 20 * 0.2 / sqrt(0.05) = 17.89 (within      *)
(* 0.05), the velocities are +0.286 and -0.286 (within 0.001), and the     *)
(* positions are shifted by vel * dt.                                      *)

C7_ScenarioSoftened ==
    FirstFrame16 =>
        /\ HasRun("gravity") =>
              /\ Near(acc[1][1], Milli(17889), Milli(50)) /\ acc[1][2] = FZero
              /\ Near(acc[2][1], Milli(-17889), Milli(50)) /\ acc[2][2] = FZero
        /\ HasRun("velocity") =>
              /\ Near(particles[1].vel[1], Milli(286), Milli(1))
              /\ particles[1].vel[2] = FZero
              /\ Near(particles[2].vel[1], Milli(-286), Milli(1))
              /\ particles[2].vel[2] = FZero
        /\ AfterCollide => (~Overlapping(pre, 1, 2) /\ particles = pre)
        /\ HasRun("integrate") =>
              \A i \in Idx :
                  particles[i].pos
                    = VAdd(initial[i].pos, VScale(particles[i].vel, dt))

C7_Witness ==
    /\ FirstFrame16
    /\ pc = "render"
    /\ FLt(Milli(-100), particles[1].pos[1])
    /\ FLt(particles[2].pos[1], Milli(100))

-----------------------------------------------------------------------------
(* C8.  The particle list always holds PARTICLE_COUNT particles, each with *)
(* the strictly positive mass it was created with, at its own index; the   *)
(* uploaded list carries the same masses in the same order.                *)

C8_CountAndMass ==
    /\ DOMAIN particles = 1 .. PARTICLE_COUNT
    /\ \A i \in Idx :
          /\ FLt(FZero, particles[i].mass)
          /\ particles[i].mass = initial[i].mass
    /\ gpu # <<>> =>
          /\ DOMAIN gpu = 1 .. PARTICLE_COUNT
          /\ \A i \in Idx : gpu[i].mass = initial[i].mass

C8_Witness ==
    /\ frame >= 2
    /\ initial[1].mass # initial[2].mass
    /\ gpu # <<>>
    /\ Resolved12
    /\ particles[1].vel # Zero

-----------------------------------------------------------------------------
(* C9.  In a run from rest, right after the collision pass has resolved    *)
(* the pair, the pair is not approaching along the contact normal:         *)
(* dot(vel_2 - vel_1, n) >= 0, up to Tolerance times the sizes of the two  *)
(* velocities before the pass.                                             *)

C9_NotApproaching ==
    Resolved12 =>
        FLe(FNeg(FMul(Tolerance, FAdd(Size(pre[1].vel), Size(pre[2].vel)))),
            Normal(VSub(particles[2].vel, particles[1].vel),
                   ContactNormal(pre, 1, 2)))

\* the pair of C9's failing input: it started 0.05 apart, passed through
\* itself in a frame of 0.03 s, and is resolved while it separates
C9_TunnelledPair ==
    /\ initial[1] = Particle(<<Milli(-25), FZero>>, Zero, One)
    /\ initial[2] = Particle(<<Milli(25), FZero>>, Zero, One)
    /\ frame = 1
    /\ dt = Milli(30)
    /\ Resolved12
    /\ FLt(One, Normal(VSub(pre[2].vel, pre[1].vel), ContactNormal(pre, 1, 2)))
    /\ FLt(Normal(VSub(particles[2].vel, particles[1].vel),
                  ContactNormal(pre, 1, 2)), FNeg(One))

-----------------------------------------------------------------------------
(* C10 as stated.  After every frame the total momentum is the zero        *)
(* vector.                                                                 *)

C10_MomentumZero == pc = "time" => TotalMomentum(particles) = Zero

(* C10 as amended.  The total momentum stays zero up to the rounding of    *)
(* the arithmetic: a frame rounds every velocity in the gravity update     *)
(* and again in a collision, so after k frames each component of the       *)
(* total is within k * MomentumDrift of zero, MomentumDrift being 2^6      *)
(* units in the last place of a momentum of size 1.                        *)

MomentumDrift == Pow2(6 - Precision)

C10_MomentumNearZero ==
    \A c \in 1 .. 2 :
        Near(TotalMomentum(particles)[c], FZero,
             FMul(FromInt(frame + 1), MomentumDrift))

C10_Witness ==
    /\ frame >= 2
    /\ pc = "time"
    /\ initial[1].mass # initial[2].mass
    /\ TotalMomentum(particles) # Zero
    /\ FLt(One, FAbs(particles[1].vel[1]))

=============================================================================
